---- MODULE Spec2Model ----
(***************************************************************************)
(* Model of olmocr/viewer/dolmaviewer.py: the driver main, which submits   *)
(* one process_document task per input line to a ThreadPoolExecutor, and   *)
(* process_document itself, step by step.                                  *)
(*                                                                         *)
(* Strings are sequences of one-character strings, so that slicing,        *)
(* escaping and the filename derivation are computed, not assumed.         *)
(***************************************************************************)
EXTENDS Integers, Sequences, FiniteSets, TLC

\* ------------------------------------------------------------------ bounds
MaxLines == 2
MaxSpans == 2

\* ------------------------------------------------------- python primitives
\* None, told apart from every string (a sequence of single characters)
None == <<"None">>

Min(a, b) == IF a < b THEN a ELSE b
Max(a, b) == IF a > b THEN a ELSE b

\* dict.get(key, default)
Get(d, k, default) == IF k \in DOMAIN d THEN d[k] ELSE default

\* str.startswith
StartsWith(s, p) == Len(s) >= Len(p) /\ SubSeq(s, 1, Len(p)) = p

\* str.replace(old, new): every non-overlapping occurrence, left to right.
\* The argument is bound to v so that it is evaluated once per call.
RECURSIVE Replace(_, _, _)
Replace(s, old, new) ==
  LET Scan(v) ==
        IF v = <<>> THEN <<>>
        ELSE IF StartsWith(v, old)
             THEN new \o Replace(SubSeq(v, Len(old) + 1, Len(v)), old, new)
             ELSE <<Head(v)>> \o Replace(Tail(v), old, new)
  IN CHOOSE r \in {Scan(v) : v \in {s}} : TRUE

\* s[start:end] with Python's rules: a negative index counts from the end,
\* both ends are clamped to the string, an empty range gives ''
SliceIndex(n, k) == IF k < 0 THEN Max(n + k, 0) ELSE Min(k, n)
Slice(s, start, end) ==
  SubSeq(s, SliceIndex(Len(s), start) + 1, SliceIndex(Len(s), end))

\* html.escape(s, quote=True)
HtmlEscape(s) ==
  LET s1 == Replace(s,  <<"&">>, <<"&","a","m","p",";">>)
      s2 == Replace(s1, <<"<">>, <<"&","l","t",";">>)
      s3 == Replace(s2, <<">">>, <<"&","g","t",";">>)
      s4 == Replace(s3, <<"\"">>, <<"&","q","u","o","t",";">>)
      s5 == Replace(s4, <<"'">>, <<"&","#","x","2","7",";">>)
  IN s5

EscapedBr == <<"&","l","t",";","b","r","&","g","t",";">>
BrTag     == <<"<","b","r",">">>

\* the two steps in the wrong order: restore, then escape
EscapeTextRestoringFirst(s) == HtmlEscape(Replace(s, EscapedBr, BrTag))

\* the text handed to markdown2: escape, then restore the literal <br>
EscapeText(s) == Replace(HtmlEscape(s), EscapedBr, BrTag)

\* markdown2.markdown(text, extras=["tables"]): an external converter, kept
\* as an uninterpreted function of the text it is given
Markdown(s) == <<"markdown2", s>>

\* a derivation that forgets to replace the dots
FileNameKeepingDots(source_file) ==
  Replace(Replace(source_file, <<"s","3",":","/","/">>, <<>>),
          <<"/">>, <<"_">>) \o <<".","h","t","m","l">>

\* a derivation that strips the scheme at the front only
FileNameStrippingPrefix(source_file) ==
  Replace(Replace(IF StartsWith(source_file, <<"s","3",":","/","/">>)
                  THEN SubSeq(source_file, 6, Len(source_file))
                  ELSE source_file,
                  <<"/">>, <<"_">>),
          <<".">>, <<"_">>) \o <<".","h","t","m","l">>

\* the output filename of process_document
HtmlSuffix == <<".","h","t","m","l">>
FileName(source_file) ==
  Replace(Replace(Replace(source_file, <<"s","3",":","/","/">>, <<>>),
                  <<"/">>, <<"_">>),
          <<".">>, <<"_">>) \o HtmlSuffix

\* ------------------------------------------------------------------ inputs
\* Source-File values: two remote paths whose filenames collide, a remote
\* path with no object behind it, and a local path
SrcA       == <<"s","3",":","/","/","b","/","k",".","p","d","f">>
SrcB       == <<"s","3",":","/","/","b","/","k","/","p","d","f">>
SrcMissing == <<"s","3",":","/","/","b","/","x">>
SrcLocal   == <<"/","d","/","a",".","p","d","f">>
\* a remote path whose key holds the scheme marker again
SrcNested  == <<"s","3",":","/","/","b","/","s","3",":","/","/","k">>
\* a remote path whose retrieval never answers
SrcStuck   == <<"s","3",":","/","/","h","/","k">>

\* the record of one JSON object: a function from the keys present
NoKeys == [k \in {} |-> None]
Attributes(a) == [k \in {"attributes"} |-> a]
Metadata(m)   == [k \in {"metadata"} |-> m]
Record(id, text, others) == others @@ [id |-> id, text |-> text]

WithSpans(spans) == [pdf_page_numbers |-> spans]
WithSource(src)  == [k \in {"Source-File"} |-> src]
Doc(id, text, spans, src) ==
  Record(id, text, Attributes(WithSpans(spans)) @@ Metadata(WithSource(src)))

TextA == <<"a","<","b","r",">","&">>
TextB == <<"|","'","\"",">">>
\* a text that spells the escaped form of <br>, and a <br> inside brackets
TextEntity  == <<"&","l","t",";","b","r","&","g","t",";">>
TextBracket == <<"<","<","b","r",">",">">>
\* a text of 14 characters and three spans, the last ending at 15
TextHello == <<"H","e","l","l","o"," ","W","o","r","l","d","!","!","X">>
SpansHello == << <<0, 5, 1>>, <<5, 10, 1>>, <<10, 15, 2>> >>

\* the three records the concurrent batches are built from
RecA == Doc(<<"A">>, TextA, << <<0, 5, 2>> >>, SrcA)
RecB == Record(<<"B">>, TextB, Metadata(WithSource(SrcB)))
RecF == Doc(<<"F">>, TextA, << <<0, 1, 1>> >>, SrcMissing)
\* a record whose PDF is behind the path that never answers
RecS == Doc(<<"S">>, TextA, << <<0, 1, 1>> >>, SrcStuck)

\* spans a record may list: in range, end past the text, negative start,
\* reversed, a page the PDF does not have, and a pair instead of a triple
SpanChoices ==
  { <<0, 5, 2>>, <<5, 6, 1>>, <<1, 9, 2>>, <<-2, 6, 1>>, <<3, 1, 1>>,
    <<0, 1, 3>>, <<0, 1>> }

SpanLists == UNION { [1..n -> SpanChoices] : n \in 0..MaxSpans }

\* the records a single-document batch is drawn from
SingleRecords ==
  { Doc(<<"A">>, TextA, spans, src) :
      spans \in SpanLists, src \in {SrcA, SrcLocal} }
  \cup { Record(<<"B">>, text, attrs @@ Metadata(WithSource(src))) :
      text \in {TextA, TextB},
      attrs \in {NoKeys, Attributes(NoKeys), Attributes(WithSpans(<<>>))},
      src \in {SrcA, SrcB, SrcLocal, SrcNested, SrcMissing} }
  \cup { Record(<<"C">>, TextB, Attributes(WithSpans(<< <<0, 4, 1>> >>))),
         Doc(<<"H">>, TextHello, SpansHello, SrcA),
         Doc(<<"E">>, TextEntity, << <<0, 10, 1>> >>, SrcLocal),
         Doc(<<"E">>, TextBracket, << <<0, 6, 1>> >>, SrcLocal) }

\* a raw line of the input, a sequence of characters; the text of a JSON
\* object is one token carrying the object it denotes, and "{" alone is a
\* text that is not JSON
\* the characters str.strip() removes: those str.isspace() accepts, the
\* ones without a TLA+ escape written by their code point
Whitespace ==
  {" ", "\t", "\n", "\r", "\f", "U+000B", "U+001C", "U+001D", "U+001E",
   "U+001F", "U+0085", "U+00A0", "U+1680", "U+2000", "U+2001", "U+2002",
   "U+2003", "U+2004", "U+2005", "U+2006", "U+2007", "U+2008", "U+2009",
   "U+200A", "U+2028", "U+2029", "U+202F", "U+205F", "U+3000"}
Char(c)   == [c |-> c, json |-> NoKeys]
Json(rec) == [c |-> "json", json |-> rec]
BlankLine == <<Char(" "), Char("\n")>>
EmptyLine == <<Char("\n")>>
BadLine   == <<Char("{"), Char("\n")>>
LineOf(rec) == <<Json(rec), Char("\n")>>
\* a line of one tab, a record followed by a tab, a record of a file with
\* CRLF line ends, and a line of a no-break space
TabLine   == <<Char("\t"), Char("\n")>>
NbspLine  == <<Char("U+00A0"), Char("\n")>>
TabbedLineOf(rec) == <<Json(rec), Char("\t"), Char("\n")>>
CrLfLineOf(rec)   == <<Json(rec), Char("\r"), Char("\n")>>

CoreLines == {BlankLine, BadLine, LineOf(RecA), LineOf(RecF)}

\* batches of several lines, whose tasks run concurrently
CoreBatches ==
  UNION { [1..n -> CoreLines] : n \in 0..MaxLines }
  \cup { <<LineOf(RecB)>>,
         <<LineOf(RecA), LineOf(RecB)>>,
         <<LineOf(RecB), LineOf(RecA)>>,
         <<LineOf(RecB), LineOf(RecB)>>,
         <<LineOf(RecB), LineOf(RecF)>>,
         <<LineOf(RecF), LineOf(RecB)>>,
         <<LineOf(RecB), BadLine>>,
         <<BadLine, LineOf(RecB)>>,
         <<BlankLine, LineOf(RecB)>>,
         <<LineOf(RecB), BlankLine>>,
         <<EmptyLine, LineOf(RecA)>>,
         <<LineOf(RecF), BadLine, LineOf(RecA)>>,
         <<LineOf(RecF), LineOf(RecA), LineOf(RecB)>>,
         <<LineOf(RecB), BlankLine, LineOf(RecB)>>,
         <<LineOf(RecS)>>,
         <<LineOf(RecS), LineOf(RecA)>>,
         <<LineOf(RecA), LineOf(RecS)>>,
         <<LineOf(RecF), LineOf(RecS)>>,
         <<LineOf(RecS), BadLine>>,
         <<BadLine, LineOf(RecS)>>,
         <<TabLine, LineOf(RecA)>>,
         <<NbspLine, LineOf(RecB)>>,
         <<TabbedLineOf(RecA)>>,
         <<CrLfLineOf(RecA), CrLfLineOf(RecB)>> }

\* batches of one document, over every shape of record
SingleBatches == { <<LineOf(rec)>> : rec \in SingleRecords }

\* the environment of a run: which credentials the session has, and whether
\* the output directory accepts files
EnvOk == [creds |-> "ok", fs |-> "ok"]
Envs ==
  { EnvOk,
    [creds |-> "missing", fs |-> "ok"],
    [creds |-> "partial", fs |-> "ok"],
    [creds |-> "denied",  fs |-> "ok"],
    [creds |-> "ok",      fs |-> "readonly"] }

\* ----------------------------------------------------------- collaborators
\* a call either returns a value or raises an exception
Return(v) == [ok |-> TRUE,  value |-> v]
Raise(e)  == [ok |-> FALSE, error |-> e]

\* the objects that exist behind a Source-File, and their page count
Store == {SrcA, SrcB, SrcLocal, SrcNested}
NumPages == 2
PdfBytes(src) == <<"pdf", src>>
NoBytes == <<>>

\* the retrievals that never return: there is no timeout around the call
Unresponsive == {SrcStuck}
Hangs(source_file) == source_file \in Unresponsive

\* olmocr.s3_utils.get_s3_bytes, when it returns
get_s3_bytes(source_file) ==
  IF source_file \in Store THEN Return(PdfBytes(source_file))
  ELSE Raise("NotFound")

\* a temporary file: absent, open under its name, or closed and deleted
NoFile == [state |-> "none",   bytes |-> NoBytes]
\* a file whose written bytes are still in the writer's buffer
OpenFileUnflushed(bytes) == [state |-> "open", bytes |-> NoBytes]
OpenFile(bytes) == [state |-> "open", bytes |-> bytes]
ClosedFile == [state |-> "closed", bytes |-> NoBytes]

\* olmocr.data.renderpdf.render_pdf_to_base64webp, reading the local file
render_pdf_to_base64webp(file, page_num) ==
  IF file.state # "open" \/ file.bytes = NoBytes THEN Raise("NoPdf")
  ELSE IF page_num \notin 1..NumPages THEN Raise("OutOfRange")
  ELSE Return(<<"webp", file.bytes, page_num>>)

\* olmocr.s3_utils.parse_s3_path: (bucket, key) of s3://bucket/key
RECURSIVE UpTo(_, _)
UpTo(s, c) ==
  IF s = <<>> \/ Head(s) = c THEN <<>> ELSE <<Head(s)>> \o UpTo(Tail(s), c)
parse_s3_path(source_file) ==
  LET rest   == SubSeq(source_file, 6, Len(source_file))
      bucket == UpTo(rest, "/")
  IN <<bucket, SubSeq(rest, Len(bucket) + 2, Len(rest))>>

\* a TTL of the whole week, without the margin
ExpiresInFullWeek == 3600 * 24 * 7

\* the TTL asked of s3_client.generate_presigned_url, and the backend's limit
ExpiresIn == 3600 * 24 * 7 - 100
OneWeek   == 3600 * 24 * 7

\* boto3's s3_client.generate_presigned_url under the session's credentials
ClientPresign(e, bucket_name, key_name, ttl) ==
  CASE e.creds = "ok"      -> Return(<<"url", bucket_name, key_name, ttl>>)
    [] e.creds = "missing" -> Raise("NoCredentialsError")
    [] e.creds = "partial" -> Raise("PartialCredentialsError")
    [] OTHER               -> Raise("ClientError")

\* a handler that catches NoCredentialsError only
generate_presigned_url_one_error(e, bucket_name, key_name) ==
  LET response == ClientPresign(e, bucket_name, key_name, ExpiresIn)
  IN IF response.ok THEN response
     ELSE IF response.error = "NoCredentialsError" THEN Return(None)
          ELSE response

\* generate_presigned_url: credential errors give None, others propagate
generate_presigned_url(e, bucket_name, key_name) ==
  LET response == ClientPresign(e, bucket_name, key_name, ExpiresIn)
  IN IF response.ok THEN response
     ELSE IF response.error \in {"NoCredentialsError", "PartialCredentialsError"}
          THEN Return(None)
          ELSE response

\* template.render(id=, pages=, s3_link=): the document as a sequence of
\* chunks, a header carrying id and link followed by one chunk per page
TemplateRender(id, pgs, link) == <<[id |-> id, s3_link |-> link]>> \o pgs

\* a file opened for appending instead
AppendMode == "a"

\* the mode of open(filepath, 'w')
FileMode == "w"

\* open(filepath, mode) on a file that holds old (<<>> when there is none):
\* 'w' creates or truncates, 'a' keeps the content; the directory may refuse
OpenForWrite(e, mode, old) ==
  IF e.fs # "ok" THEN Raise("OSError")
  ELSE Return(IF mode = "w" THEN <<>> ELSE old)

\* a write of content at offset 0 of a file that holds old: what old holds
\* past the end of content stays (another writer's bytes, written since this
\* writer truncated the file)
WriteAtStart(old, content) ==
  [i \in 1..Max(Len(old), Len(content)) |->
     IF i <= Len(content) THEN content[i] ELSE old[i]]

\* f.write(content) and the flush at the end of the with block
WriteFile(mode, old, content) ==
  IF mode = "w" THEN WriteAtStart(old, content) ELSE old \o content

\* ---------------------------------------------------- fields of one record
\* lines 33-38 of process_document
IdOf(d)         == Get(d, "id", None)
TextOf(d)       == Get(d, "text", <<>>)
AttributesOf(d) == Get(d, "attributes", NoKeys)
\* a span list that defaults to one span for the first page
SpansOfWithDefaultSpan(d) ==
  Get(AttributesOf(d), "pdf_page_numbers", << <<0, 0, 1>> >>)
SpansOf(d)      == Get(AttributesOf(d), "pdf_page_numbers", <<>>)
MetadataOf(d)   == Get(d, "metadata", NoKeys)
SourceFileOf(d) == Get(MetadataOf(d), "Source-File", None)

\* read_jsonl's line.strip()
RECURSIVE LStrip(_)
LStrip(s) == IF s # <<>> /\ Head(s).c \in Whitespace THEN LStrip(Tail(s)) ELSE s
RECURSIVE RStrip(_)
RStrip(s) ==
  IF s # <<>> /\ s[Len(s)].c \in Whitespace THEN RStrip(SubSeq(s, 1, Len(s) - 1))
  ELSE s
Strip(s) == RStrip(LStrip(s))

\* json.loads of a stripped line
json_loads(line) ==
  IF Len(line) = 1 /\ line[1].c = "json" THEN Return(line[1].json)
  ELSE Raise("JSONDecodeError")

\* ------------------------------------------------------------------- state
VARIABLES
  lines,         \* the input resource: a sequence of raw lines
  env,           \* the environment of the run
  run,           \* 1 in the first run of main, 2 in a re-run on the same input
  prev,          \* the output directory as the first run left it
  files,         \* the output directory: filename -> content
  phase,         \* main: "dispatch", "append", "drain", "shutdown", "returned", "raised"
  idx,           \* main: the next line read_jsonl yields
  futures,       \* main: the futures list, as task numbers
  observed,      \* main: futures whose result the drain loop has taken
  exc,           \* main: the exception propagating out of the with block
  log,           \* what main has printed
  pc,            \* per task: position of process_document
  data,          \* per task: the parsed record handed to process_document
  local_pdf,     \* per task: the NamedTemporaryFile
  pages,         \* per task: the pages list
  s3_link,       \* per task
  html_content,  \* per task
  filepath,      \* per task: the output file it has opened
  result,        \* per task: the future's outcome, "pending", "ok" or an error
  fetches,       \* per task: calls of get_s3_bytes
  rasters,       \* per task: calls of render_pdf_to_base64webp
  late           \* tasks that began while an exception was leaving main

vars == <<lines, env, run, prev, files, phase, idx, futures, observed, exc,
          log, pc, data, local_pdf, pages, s3_link, html_content, filepath,
          result, fetches, rasters, late>>

driverVars == <<phase, idx, futures, observed, exc, log>>
inputVars  == <<lines, env, run, prev>>

Tasks == 1..Len(lines)
NoData == NoKeys
NoError == "none"
EmptyDir == [p \in {} |-> <<>>]

\* every task in the value v
Fresh(ls, v) == [t \in 1..Len(ls) |-> v]

Init ==
  /\ \/ lines \in CoreBatches /\ env = EnvOk
     \/ lines \in SingleBatches /\ env \in Envs
  /\ run = 1
  /\ prev = EmptyDir
  /\ files = EmptyDir
  /\ phase = "dispatch"
  /\ idx = 1
  /\ futures = <<>>
  /\ observed = {}
  /\ exc = NoError
  /\ log = <<>>
  /\ late = {}
  /\ pc = Fresh(lines, "idle")
  /\ data = Fresh(lines, NoData)
  /\ local_pdf = Fresh(lines, NoFile)
  /\ pages = Fresh(lines, <<>>)
  /\ s3_link = Fresh(lines, None)
  /\ html_content = Fresh(lines, <<>>)
  /\ filepath = Fresh(lines, None)
  /\ result = Fresh(lines, "pending")
  /\ fetches = Fresh(lines, 0)
  /\ rasters = Fresh(lines, 0)

\* a task ends by raising e: the future holds the exception
Fail(t, e) ==
  /\ pc' = [pc EXCEPT ![t] = "failed"]
  /\ result' = [result EXCEPT ![t] = e]

\* -------------------------------------------------------- process_document
\* a queued work item stays in the executor's queue after shutdown is
\* asked: shutdown(wait=True) does not cancel, a worker still takes it
\* an executor whose shutdown drops the work items still queued
WorkerTakesUnlessShutdown(t) == pc[t] = "queued" /\ phase # "shutdown"

WorkerTakes(t) == pc[t] = "queued"

\* lines 33-42: a worker takes the task, reads the fields of the record,
\* creates the temporary file and calls get_s3_bytes
Begin(t) ==
  /\ WorkerTakes(t)
  /\ fetches' = [fetches EXCEPT ![t] = @ + 1]
  /\ local_pdf' = [local_pdf EXCEPT ![t] = OpenFile(NoBytes)]
  /\ pc' = [pc EXCEPT ![t] = "fetch"]
  /\ late' = IF exc # NoError THEN late \cup {t} ELSE late
  /\ UNCHANGED <<inputVars, driverVars, files, data, pages, s3_link,
                 html_content, filepath, result, rasters>>

\* lines 42-43: get_s3_bytes returns and the bytes are written and flushed,
\* or it raises; a call that hangs never gets here
Retrieve(t) ==
  /\ pc[t] = "fetch"
  /\ ~Hangs(SourceFileOf(data[t]))
  /\ LET got == get_s3_bytes(SourceFileOf(data[t])) IN
       IF got.ok
       THEN /\ local_pdf' = [local_pdf EXCEPT ![t] = OpenFile(got.value)]
            /\ pc' = [pc EXCEPT ![t] = "spans"]
            /\ UNCHANGED result
       ELSE /\ Fail(t, got.error)
            /\ UNCHANGED local_pdf
  /\ UNCHANGED <<inputVars, driverVars, files, data, pages, s3_link,
                 html_content, filepath, fetches, rasters, late>>

\* an iteration that refuses an end index past the end of the text
PageOfStrictBounds(text, span, file) ==
  IF Len(span) # 3 THEN Raise("ValueError")
  ELSE IF span[2] > Len(text) THEN Raise("IndexError")
  ELSE LET page_text == Markdown(EscapeText(Slice(text, span[1], span[2])))
           image     == render_pdf_to_base64webp(file, span[3])
       IN IF image.ok
          THEN Return([page_num |-> span[3], text |-> page_text,
                       image |-> image.value])
          ELSE image

\* what one iteration of the loop of lines 46-56 appends, or the error it
\* raises: unpack the span, slice, escape, convert, rasterize
PageOf(text, span, file) ==
  IF Len(span) # 3 THEN Raise("ValueError")
  ELSE LET page_text == Markdown(EscapeText(Slice(text, span[1], span[2])))
           image     == render_pdf_to_base64webp(file, span[3])
       IN IF image.ok
          THEN Return([page_num |-> span[3], text |-> page_text,
                       image |-> image.value])
          ELSE image

\* whether the iteration gets as far as calling the rasterizer
CallsRasterizer(span) == Len(span) = 3

\* a list built by inserting at the front
PrependPage(pgs, page) == <<page>> \o pgs
AppendPage(pgs, page) == Append(pgs, page)

\* an iteration that fetches the PDF again for its page
SpanStepRefetching(t) ==
  /\ pc[t] = "spans"
  /\ Len(pages[t]) < Len(SpansOf(data[t]))
  /\ LET span == SpansOf(data[t])[Len(pages[t]) + 1]
         page == PageOf(TextOf(data[t]), span, local_pdf[t])
     IN /\ rasters' = [rasters EXCEPT
                         ![t] = IF CallsRasterizer(span) THEN @ + 1 ELSE @]
        /\ fetches' = [fetches EXCEPT ![t] = @ + 1]
        /\ IF page.ok
           THEN /\ pages' = [pages EXCEPT ![t] = AppendPage(@, page.value)]
                /\ UNCHANGED <<pc, result>>
           ELSE /\ Fail(t, page.error)
                /\ UNCHANGED pages
  /\ UNCHANGED <<inputVars, driverVars, files, data, local_pdf, s3_link,
                 html_content, filepath, late>>

\* lines 46-56: one iteration, for the next span of the record
SpanStep(t) ==
  /\ pc[t] = "spans"
  /\ Len(pages[t]) < Len(SpansOf(data[t]))
  /\ LET span == SpansOf(data[t])[Len(pages[t]) + 1]
         page == PageOf(TextOf(data[t]), span, local_pdf[t])
     IN /\ rasters' = [rasters EXCEPT
                         ![t] = IF CallsRasterizer(span) THEN @ + 1 ELSE @]
        /\ IF page.ok
           THEN /\ pages' = [pages EXCEPT ![t] = AppendPage(@, page.value)]
                /\ UNCHANGED <<pc, result>>
           ELSE /\ Fail(t, page.error)
                /\ UNCHANGED pages
  /\ UNCHANGED <<inputVars, driverVars, files, data, local_pdf, s3_link,
                 html_content, filepath, fetches, late>>

\* line 58: the loop is over, local_pdf.close() deletes the temporary file
Close(t) ==
  /\ pc[t] = "spans"
  /\ Len(pages[t]) = Len(SpansOf(data[t]))
  /\ local_pdf' = [local_pdf EXCEPT ![t] = ClosedFile]
  /\ pc' = [pc EXCEPT ![t] = "link"]
  /\ UNCHANGED <<inputVars, driverVars, files, data, pages, s3_link,
                 html_content, filepath, result, fetches, rasters, late>>

\* lines 61-64
LinkOf(e, source_file) ==
  IF source_file # None /\ StartsWith(source_file, <<"s","3",":","/","/">>)
  THEN LET path == parse_s3_path(source_file)
       IN generate_presigned_url(e, path[1], path[2])
  ELSE Return(None)

Link(t) ==
  /\ pc[t] = "link"
  /\ LET link == LinkOf(env, SourceFileOf(data[t])) IN
       IF link.ok
       THEN /\ s3_link' = [s3_link EXCEPT ![t] = link.value]
            /\ pc' = [pc EXCEPT ![t] = "render"]
            /\ UNCHANGED result
       ELSE /\ Fail(t, link.error)
            /\ UNCHANGED s3_link
  /\ UNCHANGED <<inputVars, driverVars, files, data, local_pdf, pages,
                 html_content, filepath, fetches, rasters, late>>

\* line 67
Render(t) ==
  /\ pc[t] = "render"
  /\ html_content' = [html_content EXCEPT
        ![t] = TemplateRender(IdOf(data[t]), pages[t], s3_link[t])]
  /\ pc' = [pc EXCEPT ![t] = "open"]
  /\ UNCHANGED <<inputVars, driverVars, files, data, local_pdf, pages,
                 s3_link, filepath, result, fetches, rasters, late>>

\* the content of the file at path, <<>> when there is none
Content(dir, path) == IF path \in DOMAIN dir THEN dir[path] ELSE <<>>

\* lines 70-72: the filename, and open(filepath, 'w')
Open(t) ==
  /\ pc[t] = "open"
  /\ LET source_file == SourceFileOf(data[t])
         path == IF source_file = None THEN None ELSE FileName(source_file)
         f == IF source_file = None THEN Raise("AttributeError")
              ELSE OpenForWrite(env, FileMode, Content(files, path))
     IN IF f.ok
        THEN /\ files' = (path :> f.value) @@ files
             /\ filepath' = [filepath EXCEPT ![t] = path]
             /\ pc' = [pc EXCEPT ![t] = "write"]
             /\ UNCHANGED result
        ELSE /\ Fail(t, f.error)
             /\ UNCHANGED <<files, filepath>>
  /\ UNCHANGED <<inputVars, driverVars, data, local_pdf, pages, s3_link,
                 html_content, fetches, rasters, late>>

\* line 73 and the end of the with block: the content reaches the file
Write(t) ==
  /\ pc[t] = "write"
  /\ files' = [files EXCEPT
                 ![filepath[t]] = WriteFile(FileMode, @, html_content[t])]
  /\ pc' = [pc EXCEPT ![t] = "done"]
  /\ result' = [result EXCEPT ![t] = "ok"]
  /\ UNCHANGED <<inputVars, driverVars, data, local_pdf, pages, s3_link,
                 html_content, filepath, fetches, rasters, late>>

\* -------------------------------------------------------------------- main
FutureSet == {futures[i] : i \in 1..Len(futures)}
Resolved(t) == result[t] # "pending"

\* lines 91-93: read_jsonl yields a line that is empty once stripped
SkipLine ==
  /\ phase = "dispatch"
  /\ idx <= Len(lines)
  /\ Strip(lines[idx]) = <<>>
  /\ idx' = idx + 1
  /\ UNCHANGED <<inputVars, files, phase, futures, observed, exc, log, pc,
                 data, local_pdf, pages, s3_link, html_content, filepath, result,
                 fetches, rasters, late>>

\* lines 94-95: the line parses and executor.submit queues its work item,
\* which a worker may take before main goes on to line 96
Submit ==
  /\ phase = "dispatch"
  /\ idx <= Len(lines)
  /\ Strip(lines[idx]) # <<>>
  /\ LET parsed == json_loads(Strip(lines[idx])) IN
       /\ parsed.ok
       /\ data' = [data EXCEPT ![idx] = parsed.value]
  /\ pc' = [pc EXCEPT ![idx] = "queued"]
  /\ phase' = "append"
  /\ UNCHANGED <<inputVars, files, idx, futures, observed, exc, log, local_pdf,
                 pages, s3_link, html_content, filepath, result, fetches, rasters, late>>

\* line 96: the future is appended to main's list
AppendFuture ==
  /\ phase = "append"
  /\ futures' = Append(futures, idx)
  /\ idx' = idx + 1
  /\ phase' = "dispatch"
  /\ UNCHANGED <<inputVars, files, observed, exc, log, pc, data, local_pdf,
                 pages, s3_link, html_content, filepath, result, fetches, rasters, late>>

\* line 94: json.loads raises, and the exception leaves the for loop and
\* the with block
ParseFail ==
  /\ phase = "dispatch"
  /\ idx <= Len(lines)
  /\ Strip(lines[idx]) # <<>>
  /\ LET parsed == json_loads(Strip(lines[idx])) IN
       /\ ~parsed.ok
       /\ exc' = parsed.error
  /\ phase' = "shutdown"
  /\ UNCHANGED <<inputVars, files, idx, futures, observed, log, pc, data,
                 local_pdf, pages, s3_link, html_content, filepath, result, fetches,
                 rasters, late>>

\* line 91: read_jsonl is exhausted
DispatchDone ==
  /\ phase = "dispatch"
  /\ idx > Len(lines)
  /\ phase' = "drain"
  /\ UNCHANGED <<inputVars, files, idx, futures, observed, exc, log, pc, data,
                 local_pdf, pages, s3_link, html_content, filepath, result, fetches,
                 rasters, late>>

\* a driver that collects a finished future while it is still submitting
ObserveDoneWhileDispatching(t) ==
  /\ phase \in {"dispatch", "drain"}
  /\ t \in FutureSet \ observed
  /\ result[t] = "ok"
  /\ observed' = observed \cup {t}
  /\ UNCHANGED <<inputVars, files, phase, idx, futures, exc, log, pc, data,
                 local_pdf, pages, s3_link, html_content, filepath, result, fetches,
                 rasters, late>>

\* lines 98-100: as_completed yields a finished future, result() returns
ObserveDone(t) ==
  /\ phase = "drain"
  /\ t \in FutureSet \ observed
  /\ result[t] = "ok"
  /\ observed' = observed \cup {t}
  /\ UNCHANGED <<inputVars, files, phase, idx, futures, exc, log, pc, data,
                 local_pdf, pages, s3_link, html_content, filepath, result, fetches,
                 rasters, late>>

Message(e) == <<"An error occurred: ", e>>

\* a drain loop that prints the failure and goes on to the next future
ObserveFailedAndGoOn(t) ==
  /\ phase = "drain"
  /\ t \in FutureSet \ observed
  /\ result[t] \notin {"pending", "ok"}
  /\ observed' = observed \cup {t}
  /\ log' = Append(log, Message(result[t]))
  /\ UNCHANGED <<inputVars, files, phase, idx, futures, exc, pc, data,
                 local_pdf, pages, s3_link, html_content, filepath, result,
                 fetches, rasters, late>>

\* lines 98-103: result() raises the task's exception; print and re-raise
ObserveFailed(t) ==
  /\ phase = "drain"
  /\ t \in FutureSet \ observed
  /\ result[t] \notin {"pending", "ok"}
  /\ observed' = observed \cup {t}
  /\ log' = Append(log, Message(result[t]))
  /\ exc' = result[t]
  /\ phase' = "shutdown"
  /\ UNCHANGED <<inputVars, files, idx, futures, pc, data, local_pdf, pages,
                 s3_link, html_content, filepath, result, fetches, rasters, late>>

\* line 98: as_completed has yielded every future
DrainDone ==
  /\ phase = "drain"
  /\ observed = FutureSet
  /\ phase' = "shutdown"
  /\ UNCHANGED <<inputVars, files, idx, futures, observed, exc, log, pc, data,
                 local_pdf, pages, s3_link, html_content, filepath, result, fetches,
                 rasters, late>>

\* a shutdown that does not wait for the workers
ShutdownWithoutWait == TRUE

\* ThreadPoolExecutor.__exit__ is shutdown(wait=True): it joins the workers,
\* which leave only when the queue is empty
ShutdownReturns == \A t \in Tasks : pc[t] # "idle" => Resolved(t)

\* line 89: the with block is left, main returns or the exception goes on
ShutdownDone ==
  /\ phase = "shutdown"
  /\ ShutdownReturns
  /\ phase' = IF exc = NoError THEN "returned" ELSE "raised"
  /\ UNCHANGED <<inputVars, files, idx, futures, observed, exc, log, pc, data,
                 local_pdf, pages, s3_link, html_content, filepath, result, fetches,
                 rasters, late>>

\* main is called again on the same input and the same output directory
Rerun ==
  /\ phase \in {"returned", "raised"}
  /\ run = 1
  /\ run' = 2
  /\ prev' = files
  /\ phase' = "dispatch"
  /\ idx' = 1
  /\ futures' = <<>>
  /\ observed' = {}
  /\ exc' = NoError
  /\ log' = <<>>
  /\ late' = {}
  /\ pc' = Fresh(lines, "idle")
  /\ data' = Fresh(lines, NoData)
  /\ local_pdf' = Fresh(lines, NoFile)
  /\ pages' = Fresh(lines, <<>>)
  /\ s3_link' = Fresh(lines, None)
  /\ html_content' = Fresh(lines, <<>>)
  /\ filepath' = Fresh(lines, None)
  /\ result' = Fresh(lines, "pending")
  /\ fetches' = Fresh(lines, 0)
  /\ rasters' = Fresh(lines, 0)
  /\ UNCHANGED <<lines, env, files>>

Next ==
  \/ SkipLine
  \/ Submit
  \/ AppendFuture
  \/ ParseFail
  \/ DispatchDone
  \/ \E t \in Tasks : ObserveDone(t)
  \/ \E t \in Tasks : ObserveFailed(t)
  \/ DrainDone
  \/ ShutdownDone
  \/ Rerun
  \/ \E t \in Tasks : Begin(t)
  \/ \E t \in Tasks : Retrieve(t)
  \/ \E t \in Tasks : SpanStep(t)
  \/ \E t \in Tasks : Close(t)
  \/ \E t \in Tasks : Link(t)
  \/ \E t \in Tasks : Render(t)
  \/ \E t \in Tasks : Open(t)
  \/ \E t \in Tasks : Write(t)

Spec == Init /\ [][Next]_vars

\* one step of main's thread, and one step of the worker running task t
DriverStep ==
  \/ SkipLine
  \/ Submit
  \/ AppendFuture
  \/ ParseFail
  \/ DispatchDone
  \/ \E t \in Tasks : ObserveDone(t)
  \/ \E t \in Tasks : ObserveFailed(t)
  \/ DrainDone
  \/ ShutdownDone
WorkerStep(t) ==
  /\ t \in Tasks
  /\ \/ Begin(t)
     \/ Retrieve(t)
     \/ SpanStep(t)
     \/ Close(t)
     \/ Link(t)
     \/ Render(t)
     \/ Open(t)
     \/ Write(t)

\* the positions a line can have in a batch
TaskIds == 1..(MaxLines + 1)

\* fair scheduling: main's thread and every worker thread that can take a
\* step eventually takes one; nothing obliges anyone to call main again
FairSpec ==
  /\ Spec
  /\ WF_vars(DriverStep)
  /\ \A t \in TaskIds : WF_vars(WorkerStep(t))

TypeOK ==
  /\ phase \in {"dispatch", "append", "drain", "shutdown", "returned",
                "raised"}
  /\ run \in {1, 2}
  /\ \A t \in Tasks :
       pc[t] \in {"idle", "queued", "spans", "link", "render", "open",
                  "write", "done", "failed", "fetch"}

\* ============================================================== properties
\* an invocation of process_document has ended, by return or by exception
Ended(t) == pc[t] \in {"done", "failed"}
\* main has ended, by return or by exception
MainEnded == phase \in {"returned", "raised"}

\* the lines of the input that hold a record: non-empty and well-formed
IsRecordLine(i) ==
  /\ Strip(lines[i]) # <<>>
  /\ json_loads(Strip(lines[i])).ok
RecordAt(i) == json_loads(Strip(lines[i])).value
RecordLines == {i \in 1..Len(lines) : IsRecordLine(i)}

\* every step of a record succeeds when its task is run in environment e
PagesSucceed(rec) ==
  \A k \in 1..Len(SpansOf(rec)) :
    PageOf(TextOf(rec), SpansOf(rec)[k],
           OpenFile(PdfBytes(SourceFileOf(rec)))).ok
StepsSucceed(rec, e) ==
  /\ get_s3_bytes(SourceFileOf(rec)).ok
  /\ PagesSucceed(rec)
  /\ LinkOf(e, SourceFileOf(rec)).ok
  /\ OpenForWrite(e, FileMode, <<>>).ok

\* C1: whenever an invocation of process_document has ended, on any exit
\* path, its temporary local PDF file has been closed and deleted.
C1_TempFileReleased ==
  \A t \in Tasks : Ended(t) => local_pdf[t].state = "closed"

\* C2: when main has ended and the task of one record has failed, every
\* other record of the input whose own steps all succeed has had its output
\* file written by its task.
C2_OthersUnaffected ==
  (MainEnded /\ \E t \in Tasks : pc[t] = "failed")
    => \A i \in RecordLines :
         StepsSucceed(RecordAt(i), env) => pc[i] = "done"

\* C3: when main has ended, every non-empty well-formed line of the input,
\* also one that comes after a malformed line, has been parsed and submitted.
C3_ParseFailureIsPerRecord ==
  MainEnded => \A i \in RecordLines : i \in FutureSet

\* the drain loop has observed a failed task: it has printed and re-raised
FailureObserved == log # <<>>

\* C4 (as claimed): once the driver has observed a failed task, printed and
\* re-raised, the run ends in failure and no task that had not yet started
\* begins process_document.
C4_AbortsRemainingBatch ==
  FailureObserved => (phase \in {"shutdown", "raised"} /\ late = {})

\* C4 (amended): on the first failed task it observes the driver prints one
\* message that carries that task's exception and re-raises it, and the run
\* ends in failure; the rest of the batch is not aborted: main raises only
\* once every submitted task, also one begun after the failure was observed,
\* has run process_document to its end.
C4_ReraiseAfterRemainingTasksRan ==
  FailureObserved =>
    /\ phase \in {"shutdown", "raised"}
    /\ Len(log) = 1
    /\ \E t \in observed :
         /\ result[t] \notin {"pending", "ok"}
         /\ log[1] = <<"An error occurred: ", result[t]>>
         /\ exc = result[t]
         /\ \A u \in observed \ {t} : result[u] = "ok"
    /\ phase = "raised" =>
         \A t \in FutureSet : Ended(t) /\ (StepsSucceed(data[t], env) => pc[t] = "done")

\* C4 witness: main has re-raised a task's failure, and a task that began
\* after the failure was observed has written its output file.
C4_Witness ==
  /\ phase = "raised"
  /\ FailureObserved
  /\ \E t \in late : pc[t] = "done" /\ filepath[t] \in DOMAIN files

\* steps 1-4 of a record succeed: retrieval, every span, the link
RenderSucceeds(rec, e) ==
  /\ get_s3_bytes(SourceFileOf(rec)).ok
  /\ PagesSucceed(rec)
  /\ LinkOf(e, SourceFileOf(rec)).ok

\* the complete rendered HTML of a record
ExpectedPages(rec) ==
  [k \in 1..Len(SpansOf(rec)) |->
     PageOf(TextOf(rec), SpansOf(rec)[k],
            OpenFile(PdfBytes(SourceFileOf(rec)))).value]
ExpectedHtml(rec, e) ==
  TemplateRender(IdOf(rec), ExpectedPages(rec), LinkOf(e, SourceFileOf(rec)).value)

BeingWritten(path) == \E t \in Tasks : pc[t] = "write" /\ filepath[t] = path

\* C5: a task opens its output file only after retrieval, every span and
\* the link succeeded, and every output file that no task is in the middle
\* of writing holds the complete rendered HTML of one record of the input
\* whose steps succeeded.
C5_NoPartialOutput ==
  /\ \A t \in Tasks :
       pc[t] \in {"write", "done"} => RenderSucceeds(data[t], env)
  /\ \A path \in DOMAIN files :
       ~BeingWritten(path) =>
         \E i \in RecordLines :
           /\ RenderSucceeds(RecordAt(i), env)
           /\ files[path] = ExpectedHtml(RecordAt(i), env)

\* C6: main has neither returned nor raised while a submitted task is
\* still queued or running.
C6_CompletionAfterEveryTask ==
  MainEnded => \A t \in FutureSet : Resolved(t) /\ Ended(t)

\* C6 witness: main has raised, and a task that began while the exception
\* was leaving the with block has run to its end before main ended.
C6_Witness ==
  /\ phase = "raised"
  /\ late # {}
  /\ \A t \in late : Ended(t)

\* the tasks that have opened an output file, and those that opened path
HasOpened(t) == filepath[t] # None
Writers(path) == {t \in Tasks : filepath[t] = path}

\* a Source-File with every s3:// dropped and every / and . made _
RECURSIVE Sanitized(_)
Sanitized(s) ==
  IF s = <<>> THEN <<>>
  ELSE IF StartsWith(s, <<"s","3",":","/","/">>)
       THEN Sanitized(SubSeq(s, 6, Len(s)))
       ELSE <<IF Head(s) \in {"/", "."} THEN "_" ELSE Head(s)>>
            \o Sanitized(Tail(s))

\* C7 (as claimed): in one run no output file path is opened for writing by
\* more than one task.
C7_NoPathWrittenTwice ==
  \A t, u \in Tasks :
    (t # u /\ HasOpened(t) /\ HasOpened(u)) => filepath[t] # filepath[u]

\* two tasks wrote the same path exactly when their Source-Files sanitize
\* to the same name
C7_SamePathIffSameName ==
  \A t, u \in Tasks :
    (HasOpened(t) /\ HasOpened(u)) =>
      (filepath[t] = filepath[u]
         <=> Sanitized(SourceFileOf(data[t])) = Sanitized(SourceFileOf(data[u])))

\* a step changes an output file only as one task's open or one task's
\* write of its own path, and a task opens and writes once
C7_OneOpenOneWrite ==
  /\ \A path \in DOMAIN files' :
       (path \notin DOMAIN files \/ files'[path] # files[path]) =>
         \E t \in Tasks :
           /\ filepath'[t] = path
           /\ \/ pc[t] = "open"  /\ pc'[t] = "write"
              \/ pc[t] = "write" /\ pc'[t] = "done"
  /\ \A t \in Tasks :
       /\ pc[t] = "write" => pc'[t] \in {"write", "done"}
       /\ pc[t] = "done"  => (pc'[t] = "done" \/ run' # run)
       /\ (HasOpened(t) /\ run' = run) => filepath'[t] = filepath[t]

\* C7 (amended): in one run each task opens and writes one output file,
\* once, and two tasks write the same path exactly when their Source-File
\* values sanitize to the same filename; such tasks both write it.
C7_OnePathPerTask ==
  []C7_SamePathIffSameName /\ [][C7_OneOpenOneWrite]_vars

\* C7 witness: two tasks with different Source-Files have both written the
\* same output file.
C7_Witness ==
  \E t, u \in Tasks :
    /\ t # u
    /\ pc[t] = "done" /\ pc[u] = "done"
    /\ filepath[t] = filepath[u]
    /\ SourceFileOf(data[t]) # SourceFileOf(data[u])

\* C8 (as claimed): after a second complete run on the same input every
\* output file holds what the first run left.
C8_RerunIdentical ==
  (run = 2 /\ MainEnded) => files = prev

\* C8 (amended): after a second complete run the same output files exist,
\* and every file whose writers all rendered the same HTML, in particular
\* every file written for one record only, holds what the first run left.
C8_RerunIdenticalUnlessCollision ==
  (run = 2 /\ MainEnded) =>
    /\ DOMAIN files = DOMAIN prev
    /\ \A path \in DOMAIN files :
         (\A t, u \in Writers(path) : html_content[t] = html_content[u])
           => files[path] = prev[path]

\* C8 witness: a second run has ended and has written a file that only one
\* record of a batch of several records maps to.
C8_Witness ==
  /\ run = 2 /\ MainEnded
  /\ Len(futures) > 1
  /\ \E t \in Tasks :
       /\ pc[t] = "done"
       /\ Writers(filepath[t]) = {t}
       /\ files[filepath[t]] = html_content[t]

\* C9: the pages of a record are, in order, one page per span of
\* attributes.pdf_page_numbers: page k has the page number of span k and the
\* rendering of text[start_k:end_k]; once the loop is over there are as many
\* pages as spans, and the template is given exactly these pages.
C9_PagesInSpanOrder ==
  \A t \in Tasks :
    LET spans == SpansOf(data[t]) IN
      /\ Len(pages[t]) <= Len(spans)
      /\ \A k \in 1..Len(pages[t]) :
           /\ pages[t][k].page_num = spans[k][3]
           /\ pages[t][k].text =
                Markdown(EscapeText(Slice(TextOf(data[t]), spans[k][1], spans[k][2])))
      /\ pc[t] \in {"link", "render", "open", "write", "done"}
           => Len(pages[t]) = Len(spans)
      /\ pc[t] \in {"open", "write", "done"}
           => Tail(html_content[t]) = pages[t]

\* C9 witness: a record whose two spans are listed against page order, and
\* a record with two spans of the same page, have been rendered and written.
C9_Witness ==
  \E t \in Tasks :
    /\ pc[t] = "done"
    /\ Len(pages[t]) = 2
    /\ pages[t][1].page_num >= pages[t][2].page_num
    /\ pages[t][1].text # pages[t][2].text

\* the span list of a record is empty or missing
NoSpanList(d) ==
  \/ "attributes" \notin DOMAIN d
  \/ "pdf_page_numbers" \notin DOMAIN d["attributes"]
  \/ d["attributes"]["pdf_page_numbers"] = <<>>

Retrieved(t) == pc[t] \notin {"idle", "queued", "fetch"} /\ get_s3_bytes(SourceFileOf(data[t])).ok

\* C10 (as claimed): a record with an empty or missing span list whose PDF
\* was retrieved raises no error, never calls the rasterizer, and ends with
\* an output document of zero pages written.
C10_EmptySpanListNoError ==
  \A t \in Tasks :
    (Retrieved(t) /\ NoSpanList(data[t])) =>
      /\ pc[t] # "failed"
      /\ rasters[t] = 0
      /\ pc[t] = "done" =>
           /\ filepath[t] \in DOMAIN files
           /\ html_content[t] = <<[id |-> IdOf(data[t]), s3_link |-> s3_link[t]]>>

\* C10 (amended): such a record never calls the rasterizer and raises no
\* error up to and including the span loop; it fails only if presigned-link
\* generation raises a non-credential error or the output file cannot be
\* opened, and otherwise ends with an output document of zero pages written.
C10_EmptySpanListZeroPages ==
  \A t \in Tasks :
    (Retrieved(t) /\ NoSpanList(data[t])) =>
      /\ rasters[t] = 0
      /\ pages[t] = <<>>
      /\ pc[t] = "failed" =>
           \/ ~LinkOf(env, SourceFileOf(data[t])).ok /\ result[t] = "ClientError"
           \/ ~OpenForWrite(env, FileMode, <<>>).ok /\ result[t] = "OSError"
      /\ pc[t] = "done" =>
           /\ filepath[t] \in DOMAIN files
           /\ html_content[t] = <<[id |-> IdOf(data[t]), s3_link |-> s3_link[t]]>>

\* C10 witness: a record with no attributes at all has been written, with
\* zero pages and no call of the rasterizer.
C10_Witness ==
  \E t \in Tasks :
    /\ "attributes" \notin DOMAIN data[t]
    /\ pc[t] = "done"
    /\ Len(files[filepath[t]]) = 1
    /\ rasters[t] = 0


\* the Source-File of a task is a remote object path
IsRemote(t) ==
  /\ SourceFileOf(data[t]) # None
  /\ StartsWith(SourceFileOf(data[t]), <<"s","3",":","/","/">>)

CredentialsFail == env.creds \in {"missing", "partial"}

\* C11: when the credentials are missing or incomplete, presigned-link
\* generation does not fail the record: the task never ends with the
\* credential error, it goes on with no link, its pages are those it has
\* with good credentials, and it ends with the document written, the link
\* being None.
C11_CredentialFailureNotFatal ==
  \A t \in Tasks :
    (CredentialsFail /\ IsRemote(t) /\ Retrieved(t)) =>
      /\ result[t] \notin {"NoCredentialsError", "PartialCredentialsError"}
      /\ pc[t] = "failed" => ~PagesSucceed(data[t])
      /\ pc[t] \in {"render", "open", "write", "done"} =>
           /\ s3_link[t] = None
           /\ pages[t] = Tail(ExpectedHtml(data[t], EnvOk))
      /\ pc[t] = "done" =>
           /\ html_content[t] =
                <<[id |-> IdOf(data[t]), s3_link |-> None]>>
                  \o Tail(ExpectedHtml(data[t], EnvOk))
           /\ filepath[t] \in DOMAIN files
           /\ files[filepath[t]] = html_content[t]

\* C11 witness: with incomplete credentials a record with two spans has
\* been written, without a link and with both pages.
C11_Witness ==
  \E t \in Tasks :
    /\ env.creds = "partial"
    /\ IsRemote(t)
    /\ pc[t] = "done"
    /\ s3_link[t] = None
    /\ Len(files[filepath[t]]) = 3


\* a span is a triple whose end index lies past the end of the text
EndsPastText(span, text) == Len(span) = 3 /\ span[2] > Len(text)

\* every span of a record is a triple that names a page the PDF has
SpansWellFormed(rec) ==
  \A k \in 1..Len(SpansOf(rec)) :
    Len(SpansOf(rec)[k]) = 3 /\ SpansOf(rec)[k][3] \in 1..NumPages

\* C12: a span whose end index exceeds the length of the text raises no
\* error: its page holds the text from the start index to the end of the
\* text, and a retrieved record with such a span and otherwise well-formed
\* spans is rendered with one page per span; it can fail only at link
\* generation or at the output write.
C12_SlicePastEndIsClamped ==
  \A t \in Tasks :
    LET spans == SpansOf(data[t])
        text  == TextOf(data[t])
    IN /\ result[t] # "IndexError"
       /\ \A k \in 1..Len(pages[t]) :
            (EndsPastText(spans[k], text) /\ spans[k][1] \in 0..Len(text)) =>
              pages[t][k].text =
                Markdown(EscapeText(SubSeq(text, spans[k][1] + 1, Len(text))))
       /\ ( /\ Retrieved(t)
            /\ SpansWellFormed(data[t])
            /\ \E k \in 1..Len(spans) : EndsPastText(spans[k], text) ) =>
              /\ pc[t] = "failed" => result[t] \in {"ClientError", "OSError"}
              /\ pc[t] = "done" => Len(pages[t]) = Len(spans)

\* C12 witness: the record with spans (0,5,1), (5,10,1), (10,15,2) over the
\* 14-character text has been written with three pages, the third holding
\* the text from index 10 to the end.
C12_Witness ==
  \E t \in Tasks :
    /\ TextOf(data[t]) = TextHello
    /\ SpansOf(data[t]) = SpansHello
    /\ pc[t] = "done"
    /\ Len(pages[t]) = 3
    /\ pages[t][3].text = Markdown(<<"d","!","!","X">>)


\* the characters of a string
Chars(s) == {s[k] : k \in 1..Len(s)}

DotHtml == <<".","h","t","m","l">>
Name_b_k_pdf == <<"b","_","k","_","p","d","f">> \o DotHtml

\* C13: the output file a task opens is named by its Source-File alone: the
\* Source-File with every s3:// removed and every / and . replaced by _,
\* followed by .html; s3://b/k.pdf and s3://b/k/pdf both give b_k_pdf.html,
\* and the name holds no / character.
C13_FileNameFromSourceFile ==
  \A t \in Tasks :
    HasOpened(t) =>
      LET source_file == SourceFileOf(data[t]) IN
        /\ filepath[t] = Sanitized(source_file) \o DotHtml
        /\ "/" \notin Chars(filepath[t])
        /\ source_file \in {SrcA, SrcB} => filepath[t] = Name_b_k_pdf
        /\ source_file = SrcNested => filepath[t] = <<"b","_","k">> \o DotHtml

\* C13 witness: files have been opened for s3://b/k.pdf and for s3://b/k/pdf
\* in one run, both under the name b_k_pdf.html.
C13_Witness ==
  \E t, u \in Tasks :
    /\ SourceFileOf(data[t]) = SrcA /\ filepath[t] = Name_b_k_pdf
    /\ SourceFileOf(data[u]) = SrcB /\ filepath[u] = Name_b_k_pdf


\* the TTL a generated link was asked with
TtlOf(link) == link[4]

\* C14: every presigned link is asked with the same TTL, 604700 seconds,
\* which is strictly less than the backend's maximum of one week, 604800
\* seconds.
C14_TtlBelowOneWeek ==
  \A t \in Tasks :
    s3_link[t] # None =>
      /\ TtlOf(s3_link[t]) = 604700
      /\ TtlOf(s3_link[t]) < 604800
      /\ TtlOf(s3_link[t]) < OneWeek

\* C14 witness: two tasks of one run hold a generated link each, for
\* different objects.
C14_Witness ==
  \E t, u \in Tasks :
    /\ s3_link[t] # None /\ s3_link[u] # None
    /\ s3_link[t] # s3_link[u]
    /\ TtlOf(s3_link[t]) = TtlOf(s3_link[u])


\* the lines of the input that are not empty once stripped
NonEmptyLines == {i \in 1..Len(lines) : Strip(lines[i]) # <<>>}

\* C15: no task is submitted for an empty line and no line is submitted
\* twice; once main has ended every non-empty line has its one task; a
\* submitted record is taken by a worker at most once, and its spans are
\* rendered one after the other, never more pages or rasterizer calls than
\* spans.
C15_OneTaskPerNonEmptyLine ==
  /\ \A j, k \in 1..Len(futures) : j # k => futures[j] # futures[k]
  /\ FutureSet \subseteq NonEmptyLines
  /\ MainEnded => NonEmptyLines \subseteq FutureSet
  /\ \A t \in Tasks :
       /\ fetches[t] <= 1
       /\ t \notin NonEmptyLines => (pc[t] = "idle" /\ fetches[t] = 0)
       /\ t \in FutureSet => pc[t] # "idle"
       /\ Len(pages[t]) <= Len(SpansOf(data[t]))
       /\ rasters[t] <= Len(SpansOf(data[t]))
       /\ rasters[t] \in {Len(pages[t]), Len(pages[t]) + 1}


\* C16: an invocation of process_document calls get_s3_bytes exactly once,
\* before any span is rendered, whatever the number of spans; every image
\* of the record is rasterized from the bytes of that one retrieval, held
\* in the local temporary copy.
C16_RetrievedOncePerRecord ==
  \A t \in Tasks :
    /\ pc[t] \in {"idle", "queued"} =>
         (fetches[t] = 0 /\ rasters[t] = 0 /\ pages[t] = <<>>)
    /\ pc[t] \notin {"idle", "queued"} => fetches[t] = 1
    /\ rasters[t] > 0 => get_s3_bytes(SourceFileOf(data[t])).ok
    /\ pc[t] = "spans" => local_pdf[t].bytes = PdfBytes(SourceFileOf(data[t]))
    /\ \A k \in 1..Len(pages[t]) :
         pages[t][k].image =
           <<"webp", PdfBytes(SourceFileOf(data[t])), pages[t][k].page_num>>

\* C16 witness: a record with two spans of the same page has been written
\* after one retrieval and two rasterizations.
C16_Witness ==
  \E t \in Tasks :
    /\ pc[t] = "done"
    /\ Len(pages[t]) = 2
    /\ pages[t][1].page_num = pages[t][2].page_num
    /\ fetches[t] = 1
    /\ rasters[t] = 2


\* the escape entity html.escape writes for a character, if any
EntityOf(c) ==
  CASE c = "&"  -> <<"&","a","m","p",";">>
    [] c = "<"  -> <<"&","l","t",";">>
    [] c = ">"  -> <<"&","g","t",";">>
    [] c = "\"" -> <<"&","q","u","o","t",";">>
    [] c = "'"  -> <<"&","#","x","2","7",";">>
    [] OTHER    -> <<c>>
Entities == {EntityOf(c) : c \in {"&", "<", ">", "\"", "'"}}

\* a slice read once from left to right: a literal <br> stays a <br> tag,
\* every other character is escaped
RECURSIVE EscapedKeepingBr(_)
EscapedKeepingBr(s) ==
  IF s = <<>> THEN <<>>
  ELSE IF StartsWith(s, <<"<","b","r",">">>)
       THEN <<"<","b","r",">">> \o EscapedKeepingBr(SubSeq(s, 5, Len(s)))
       ELSE EntityOf(Head(s)) \o EscapedKeepingBr(Tail(s))

\* the text a page handed to the Markdown converter
HandedToMarkdown(page) == page.text[2]

\* in h, every < opens and every > closes a <br> tag, and every & begins
\* an escape entity
OnlyBrMarkup(h) ==
  \A k \in 1..Len(h) :
    /\ h[k] = "<" => (k + 3 <= Len(h) /\ SubSeq(h, k, k + 3) = <<"<","b","r",">">>)
    /\ h[k] = ">" => (k > 3 /\ SubSeq(h, k - 3, k) = <<"<","b","r",">">>)
    /\ h[k] = "&" => \E ent \in Entities : StartsWith(SubSeq(h, k, Len(h)), ent)

\* C17: the text handed to the Markdown converter for a slice is the slice
\* HTML-escaped with exactly the literal <br> restored: it has a <br> tag
\* where the slice had a literal <br>, no other < or >, and every & in it
\* begins an escape entity; the page text is the conversion of that text.
C17_EscapeThenRestoreBr ==
  \A t \in Tasks :
    \A k \in 1..Len(pages[t]) :
      LET span == SpansOf(data[t])[k]
          page_text == Slice(TextOf(data[t]), span[1], span[2])
          handed == HandedToMarkdown(pages[t][k])
      IN /\ pages[t][k].text = <<"markdown2", handed>>
         /\ handed = EscapedKeepingBr(page_text)
         /\ OnlyBrMarkup(handed)

\* C17 witness: a record whose slice is a literal <br> followed by an
\* ampersand has been rendered and written: the tag was restored and the
\* ampersand escaped.
C17_Witness ==
  \E t \in Tasks :
    \E k \in 1..Len(pages[t]) :
      /\ Slice(TextOf(data[t]), SpansOf(data[t])[k][1], SpansOf(data[t])[k][2])
           = <<"<","b","r",">","&">>
      /\ HandedToMarkdown(pages[t][k]) = <<"<","b","r",">","&","a","m","p",";">>
      /\ pc[t] = "done"


\* the record lines main gets to submit: those before any malformed line
SubmittedLines ==
  {i \in RecordLines :
     \A j \in 1..(i - 1) : Strip(lines[j]) = <<>> \/ IsRecordLine(j)}
\* every collaborator call of every task main submits returns or raises
EveryCallReturns ==
  \A i \in SubmittedLines : ~Hangs(SourceFileOf(RecordAt(i)))
\* a worker is inside a call that never returns
Stuck(t) == pc[t] = "fetch" /\ Hangs(SourceFileOf(data[t]))

\* C18: under fair scheduling, when every collaborator call returns or
\* raises, main eventually ends, by returning or by raising, with every
\* submitted task done or failed; and once a task is inside a call that
\* never returns, main never ends.
C18_TerminatesUnlessCallStuck ==
  /\ EveryCallReturns ~> (MainEnded /\ \A t \in FutureSet : Ended(t))
  /\ [] ((\E t \in Tasks : Stuck(t)) => [] ~MainEnded)

\* C18 witness: main has ended on a batch of at least two submitted tasks,
\* all of them done or failed, none of whose calls hangs.
C18_Witness ==
  /\ EveryCallReturns
  /\ MainEnded
  /\ Len(futures) >= 2
  /\ \A t \in FutureSet : Ended(t)
  /\ \E t \in FutureSet : pc[t] = "failed"
  /\ \E t \in FutureSet : pc[t] = "done"


\* C19: while main is dispatching it has observed no result, printed no
\* failure and holds no exception; whatever it has observed or printed, every
\* non-empty line had been parsed and submitted before; dispatching is cut
\* short only by a line that does not parse, never by a task that failed;
\* and each result main observes is that of a task that has finished,
\* whatever its place in the submission order.
C19_NoResultBeforeDispatchEnds ==
  /\ [] (phase \in {"dispatch", "append"} =>
           (observed = {} /\ log = <<>> /\ exc = NoError))
  /\ [] ((observed # {} \/ log # <<>>) =>
           (idx > Len(lines) /\ FutureSet = NonEmptyLines))
  /\ [][(phase = "dispatch" /\ phase' = "shutdown") =>
           ~json_loads(Strip(lines[idx])).ok]_vars
  /\ [][\A t \in Tasks :
          (t \in observed' /\ t \notin observed) =>
            (phase = "drain" /\ Resolved(t))]_vars

\* C19 witness: a task failed while main was still dispatching, the later
\* line was submitted all the same, and main has observed the later task
\* while the one submitted before it has not finished.
C19_Witness ==
  \E t, u \in FutureSet :
    /\ u < t
    /\ t \in observed
    /\ ~Resolved(u)
    /\ \E f \in FutureSet : f < t /\ pc[f] = "failed"


\* the temporary file of task t is open and holds every retrieved byte
FileComplete(t) ==
  /\ local_pdf[t].state = "open"
  /\ local_pdf[t].bytes = PdfBytes(SourceFileOf(data[t]))
\* task t takes one of the steps after the loop: link, template, output
AfterLoopStep(t) ==
  \/ s3_link'[t] # s3_link[t]
  \/ html_content'[t] # html_content[t]
  \/ filepath'[t] # filepath[t]
  \/ (pc[t] = "write" /\ files' # files)

\* C20: within an invocation, each call of the rasterizer is made while the
\* record's temporary file is open and holds all the retrieved bytes, and
\* leaves the file so; the file is closed once the loop is left, so the
\* presigned link, the rendering of the template and the opening and writing
\* of the output file all happen with the temporary file closed.
C20_RasterizeWhileFileComplete ==
  /\ [][\A t \in Tasks :
          rasters'[t] > rasters[t] =>
            (pc[t] = "spans" /\ FileComplete(t) /\ local_pdf'[t] = local_pdf[t])]_vars
  /\ [] (\A t \in Tasks :
           pc[t] \in {"link", "render", "open", "write", "done"} =>
             local_pdf[t] = ClosedFile)
  /\ [][\A t \in Tasks :
          (run' = run /\ AfterLoopStep(t)) =>
            (local_pdf[t] = ClosedFile /\ local_pdf'[t] = ClosedFile)]_vars

\* C20 witness: a remote record whose page was rasterized has had its link
\* generated, with the temporary file closed.
C20_Witness ==
  \E t \in Tasks :
    /\ pc[t] = "render"
    /\ rasters[t] >= 1
    /\ s3_link[t] # None
    /\ local_pdf[t] = ClosedFile

====
